---- MODULE Spec2Model ----
(***************************************************************************)
(* The order service of app/main_apprunner.py: six FastAPI handlers over a *)
(* DynamoDB table, an EventBridge bus and an S3 bucket.                     *)
(*                                                                         *)
(* Every handler is an `async def` without an await point, and the boto3   *)
(* calls in it are blocking, so the single uvicorn event loop of           *)
(* uvicorn.run(app) runs each handler to completion before the next one    *)
(* starts: one action per handler.                                          *)
(*                                                                         *)
(* The three backends are outside the repository.  They are modelled by    *)
(* the contract the handlers rely on: a call either takes its documented   *)
(* effect and returns, or raises and has no effect; put_item replaces the  *)
(* item with the same (pk, sk); update_item changes the item with that key *)
(* or creates it; query returns the items of one partition in ascending    *)
(* sort-key order; scan returns the items of the table; reads see every    *)
(* completed write and a response carries all matching items (a table      *)
(* larger than one response page is outside the model).                    *)
(*                                                                         *)
(* uuid.uuid4() is modelled as a generator of fresh values: 122 random     *)
(* bits, never a value drawn before and never a value a client named       *)
(* before it was drawn.  The code itself performs no uniqueness check.     *)
(* Order id 0 stands for a string of a client's own choice.                *)
(*                                                                         *)
(* datetime.utcnow() is the wall clock: it never runs backwards here, and  *)
(* two requests may read the same value.                                   *)
(*                                                                         *)
(* Values are pairs <<tag, n>>: <<"ORDER", i>> is the string "ORDER#<i>",  *)
(* <<"METADATA", t>> is "METADATA#<t>", <<"id", i>> an order id,           *)
(* <<"ts", t>> the ISO timestamp of clock reading t, <<"str", n>> a        *)
(* caller's string (<<"str", 0>> is the empty string), <<"created", 0>>    *)
(* the literal 'created'.  ISO timestamps of one clock order as the clock  *)
(* readings do, so sort keys are compared by their reading.                *)
(***************************************************************************)
EXTENDS Integers, Sequences, FiniteSets, Bags, TLC

VARIABLES
    store,      \* the DynamoDB table: a set of items, one per (pk, sk)
    bus,        \* the events put on the EventBridge bus: a bag
    objects,    \* the S3 bucket: a set of [Key, Body]
    S3_BUCKET,  \* the bucket name read from the environment at start-up
    now,        \* the reading of datetime.utcnow()
    nextUuid,   \* the number of values uuid4() has produced so far
    issued,     \* history: the order ids successful POST /orders returned
    orphans,    \* history: creates whose item was written and event was not
    last        \* history: the last request handled and its response

vars == <<store, bus, objects, S3_BUCKET, now, nextUuid, issued, orphans, last>>

(* ------------------------------ bounds ------------------------------- *)

MaxUuid == 2      \* values uuid4() may produce in one run
MaxTime == 2      \* clock readings 1..MaxTime
MaxItems == 2     \* items the table may hold before writes are held back
MaxEvents == 2    \* events the bus may hold before publishers are held back
MaxBodyFields == 1 \* fields in the JSON object of a POST /orders

(* ------------------------------ values ------------------------------- *)

PK(i) == <<"ORDER", i>>
SK(t) == <<"METADATA", t>>
ID(i) == <<"id", i>>
TS(t) == <<"ts", t>>
STR(n) == <<"str", n>>
Created == <<"created", 0>>
Num(n) == <<"num", n>>

EmptyObj == [a \in {} |-> Created]

\* Order ids a client can put in a URL or a body: strings of its own choice
\* (never a uuid not yet drawn) and the uuids drawn so far.
ClientIds == {0}
Nameable(n) == ClientIds \cup (1..n)

(* ------------------------- request inputs ---------------------------- *)

BodyAttrs == {"pk", "sk", "order_id", "status", "note"}

\* The values a caller may give a field of a POST /orders body.  Sort key 0
\* is "METADATA#<a time before the first clock reading>", sort key MaxTime
\* the one an update at the last clock reading addresses.
FieldValues(a, n) ==
    CASE a = "pk" -> {PK(j) : j \in Nameable(n)}
      [] a = "sk" -> {SK(0), SK(MaxTime)}
      [] a = "order_id" -> {ID(j) : j \in ClientIds}
      [] a = "status" -> {STR(1)}
      [] OTHER -> {STR(1)}

Bodies(n) ==
    UNION {
        {f \in [D -> UNION {FieldValues(a, n) : a \in D}] :
            \A a \in D : f[a] \in FieldValues(a, n)} :
        D \in {E \in SUBSET BodyAttrs : Cardinality(E) <= MaxBodyFields}}

\* Bodies of PUT /orders/{id}/status: no status field, the empty string, or
\* a status.
StatusBodies == {EmptyObj, ("status" :> STR(0)), ("status" :> STR(1))}

\* Bodies of POST /files/upload: with or without a filename.
FileBodies == {EmptyObj, ("filename" :> STR(1))}

(* ---------------------- the DynamoDB table --------------------------- *)

Key(item) == <<item["pk"], item["sk"]>>

Keys(tbl) == {Key(x) : x \in tbl}

\* DynamoDB orders the items of a partition by the bytes of the sort key.
SkRank(item) == item["sk"][2]

KeyRank(item) == item["pk"][2] * (MaxTime + 1) + SkRank(item)

RECURSIVE Sorted(_, _)
Sorted(S, byKey) ==
    IF S = {} THEN <<>>
    ELSE LET r(x) == IF byKey THEN KeyRank(x) ELSE SkRank(x)
             m == CHOOSE x \in S : \A y \in S : r(x) <= r(y)
         IN  <<m>> \o Sorted(S \ {m}, byKey)

\* table.put_item(Item=item): creates the item or replaces the one with its key.
PutItem(tbl, item) == {x \in tbl : Key(x) # Key(item)} \cup {item}

\* Mutant: the update changes the partition's first item, whatever its sort key.
UpdateItemFirstOfPartition(tbl, pk, sk, status, timestamp) ==
    LET set == ("status" :> status) @@ ("updated_at" :> timestamp)
        part == Sorted({x \in tbl : x["pk"] = pk}, FALSE)
    IN  IF part = <<>> THEN tbl \cup {set @@ ("pk" :> pk) @@ ("sk" :> sk)}
        ELSE (tbl \ {part[1]}) \cup {set @@ part[1]}

\* table.update_item(Key, 'SET #status = :status, updated_at = :timestamp'):
\* sets the two attributes of the item with that key, creating the item when
\* there is none.
UpdateItem(tbl, pk, sk, status, timestamp) ==
    LET set == ("status" :> status) @@ ("updated_at" :> timestamp)
        old == {x \in tbl : Key(x) = <<pk, sk>>}
        new == IF old = {} THEN set @@ ("pk" :> pk) @@ ("sk" :> sk)
               ELSE set @@ (CHOOSE x \in old : TRUE)
    IN  (tbl \ old) \cup {new}

\* Mutant: the partition's items in descending sort-key order.
QueryDescending(tbl, pk) ==
    LET up == Sorted({x \in tbl : x["pk"] = pk}, FALSE)
    IN  [Items |-> [i \in 1..Len(up) |-> up[Len(up) + 1 - i]]]

\* table.query(KeyConditionExpression='pk = :pk'): the partition's items in
\* ascending sort-key order.
Query(tbl, pk) == [Items |-> Sorted({x \in tbl : x["pk"] = pk}, FALSE)]

\* Mutant: a scan that stops after the first item and still counts them all.
ScanFirstOnly(tbl) ==
    LET items == Sorted(tbl, TRUE)
    IN  [Items |-> SubSeq(items, 1, IF items = <<>> THEN 0 ELSE 1), Count |-> Len(items)]

\* table.scan(): the items of the table and their number.
Scan(tbl) ==
    LET items == Sorted(tbl, TRUE)
    IN  [Items |-> items, Count |-> Len(items)]

(* ------------------- responses and exceptions ------------------------ *)

None == <<"none", 0>>

Return(resp, orders) == [exc |-> "none", code |-> 200, resp |-> resp, orders |-> orders]

\* raise HTTPException(status_code=code, ...)
HTTPException(code) == [exc |-> "HTTPException", code |-> code, resp |-> EmptyObj, orders |-> <<>>]

\* Any other exception: a boto3 call that failed.
Exception == [exc |-> "Exception", code |-> 0, resp |-> EmptyObj, orders |-> <<>>]

\* Mutant: no `except HTTPException: raise`, every exception becomes status_code.
ExceptAll(outcome, reraise, status_code) ==
    IF outcome.exc = "none" THEN outcome
    ELSE [exc |-> "HTTPException", code |-> status_code, resp |-> EmptyObj, orders |-> <<>>]

\* The except clauses of a handler.  With `except HTTPException: raise` an
\* HTTPException leaves the handler as it is; everything else becomes
\* HTTPException(status_code).
Except(outcome, reraise, status_code) ==
    IF outcome.exc = "none" THEN outcome
    ELSE IF outcome.exc = "HTTPException" /\ reraise THEN outcome
    ELSE HTTPException(status_code)

Call(name, ok) == [call |-> name, ok |-> ok]

Request(op, id, body, calls, outcome) ==
    [op |-> op, id |-> id, body |-> body, calls |-> calls,
     code |-> outcome.code, resp |-> outcome.resp, orders |-> outcome.orders]

(* ----------------------------- handlers ------------------------------ *)

\* Mutant: a generator that returns its previous value again.
Uuid4Stale(n) == IF n = 0 THEN 1 ELSE n

\* uuid.uuid4(): the next value never drawn before.
Uuid4(n) == n + 1

\* The item create_order builds: the caller's fields come last in the dict
\* literal, so they replace the handler's on a name clash.
OrderItem(order, order_id, timestamp) ==
    order @@ ("pk" :> PK(order_id)) @@ ("sk" :> SK(timestamp))
          @@ ("order_id" :> ID(order_id)) @@ ("status" :> Created)
          @@ ("created_at" :> TS(timestamp))

\* Mutant: the item is deleted again when put_events raises.
StoreAfterCreateRollback(tbl, item, dbOk, evOk) ==
    IF dbOk /\ evOk THEN {x \in tbl : Key(x) # Key(item)} \cup {item} ELSE tbl

\* The table after create_order: put_item comes first, and nothing undoes it
\* when put_events raises afterwards.
StoreAfterCreate(tbl, item, dbOk, evOk) == IF dbOk THEN PutItem(tbl, item) ELSE tbl

\* One entry of eventbridge.put_events.  Detail is the JSON text of the
\* mapping; json.dumps of a flat mapping of strings is one-to-one, so the
\* mapping stands for its text.
Event(detailType, order_id, status, timestamp) ==
    [Source |-> "myapp.orders", DetailType |-> detailType,
     Detail |-> ("order_id" :> ID(order_id)) @@ ("status" :> status)
                @@ ("timestamp" :> TS(timestamp)),
     EventBusName |-> "default"]

StatusResponse(order_id, status, timestamp) ==
    ("order_id" :> ID(order_id)) @@ ("status" :> status) @@ ("timestamp" :> TS(timestamp))

\* GET /
Root ==
    /\ last' = Request("root", None, EmptyObj, <<>>,
                       Return(("version" :> <<"1.0.0", 0>>) @@ ("s3_bucket" :> <<S3_BUCKET, 0>>), <<>>))
    /\ UNCHANGED <<store, bus, objects, S3_BUCKET, now, nextUuid, issued, orphans>>

\* GET /health: table.table_status loads the table's description.
HealthCheck(dbOk) ==
    LET outcome == IF dbOk THEN Return(("status" :> <<"healthy", 0>>), <<>>) ELSE Exception
    IN  /\ last' = Request("health", None, EmptyObj, <<Call("table_status", dbOk)>>,
                           Except(outcome, FALSE, 503))
        /\ UNCHANGED <<store, bus, objects, S3_BUCKET, now, nextUuid, issued, orphans>>

\* POST /orders
CreateOrder(order, dbOk, evOk) ==
    LET order_id == Uuid4(nextUuid)
        timestamp == now
        item == OrderItem(order, order_id, timestamp)
        calls == IF dbOk THEN <<Call("put_item", TRUE), Call("put_events", evOk)>>
                 ELSE <<Call("put_item", FALSE)>>
        outcome == IF dbOk /\ evOk
                   THEN Return(StatusResponse(order_id, Created, timestamp), <<>>)
                   ELSE Exception
        response == Except(outcome, FALSE, 500)
    IN  /\ nextUuid < MaxUuid
        /\ Cardinality(store) < MaxItems
        /\ BagCardinality(bus) < MaxEvents
        /\ nextUuid' = order_id
        /\ store' = StoreAfterCreate(store, item, dbOk, evOk)
        /\ bus' = IF dbOk /\ evOk
                  THEN bus (+) SetToBag({Event("Order Created", order_id, Created, timestamp)})
                  ELSE bus
        /\ issued' = IF response.code = 200
                     THEN issued \cup {response.resp["order_id"]} ELSE issued
        /\ orphans' = IF dbOk /\ ~evOk
                      THEN orphans \cup {[id |-> order_id, key |-> Key(item)]}
                      ELSE orphans
        /\ last' = Request("create", None, order, calls, response)
        /\ UNCHANGED <<objects, S3_BUCKET, now>>

\* GET /orders/{order_id}
GetOrder(order_id, dbOk) ==
    LET response == Query(store, PK(order_id))
        outcome == IF ~dbOk THEN Exception
                   ELSE IF response.Items = <<>> THEN HTTPException(404)
                   ELSE Return(response.Items[1], <<>>)
    IN  /\ last' = Request("get", ID(order_id), EmptyObj, <<Call("query", dbOk)>>,
                           Except(outcome, TRUE, 500))
        /\ UNCHANGED <<store, bus, objects, S3_BUCKET, now, nextUuid, issued, orphans>>

\* Mutant: only a missing field counts, the empty string passes.
NoStatusOnlyMissing(status_data) == "status" \notin DOMAIN status_data

\* `not new_status`: the field is missing or the empty string.
NoStatus(status_data) ==
    IF "status" \in DOMAIN status_data THEN status_data["status"] = STR(0) ELSE TRUE

\* PUT /orders/{order_id}/status
UpdateOrderStatus(order_id, status_data, dbOk, evOk) ==
    LET missing == NoStatus(status_data)
        new_status == IF missing THEN None ELSE status_data["status"]
        timestamp == now
        calls == IF missing THEN <<>>
                 ELSE IF dbOk THEN <<Call("update_item", TRUE), Call("put_events", evOk)>>
                 ELSE <<Call("update_item", FALSE)>>
        outcome == IF missing THEN HTTPException(400)
                   ELSE IF dbOk /\ evOk
                   THEN Return(StatusResponse(order_id, new_status, timestamp), <<>>)
                   ELSE Exception
        written == ~missing /\ dbOk
    IN  /\ ~missing => (Cardinality(store) < MaxItems /\ BagCardinality(bus) < MaxEvents)
        /\ store' = IF written
                    THEN UpdateItem(store, PK(order_id), SK(timestamp), new_status, TS(timestamp))
                    ELSE store
        /\ bus' = IF written /\ evOk
                  THEN bus (+) SetToBag({Event("Order Status Updated", order_id, new_status, timestamp)})
                  ELSE bus
        /\ last' = Request("update", ID(order_id), status_data, calls,
                           Except(outcome, TRUE, 500))
        /\ UNCHANGED <<objects, S3_BUCKET, now, nextUuid, issued, orphans>>

\* GET /orders
ListOrders(dbOk) ==
    LET response == Scan(store)
        outcome == IF dbOk
                   THEN Return(("count" :> Num(response.Count)), response.Items)
                   ELSE Exception
    IN  /\ last' = Request("list", None, EmptyObj, <<Call("scan", dbOk)>>,
                           Except(outcome, FALSE, 500))
        /\ UNCHANGED <<store, bus, objects, S3_BUCKET, now, nextUuid, issued, orphans>>

\* Mutant: the key without the uploads/ prefix.
FileKeyNoPrefix(uuid, file_data) ==
    <<"", uuid, "-",
      IF "filename" \in DOMAIN file_data THEN file_data["filename"] ELSE <<"file", 0>>>>

\* f"uploads/{uuid.uuid4()}-{file_data.get('filename', 'file')}"
FileKey(uuid, file_data) ==
    <<"uploads/", uuid, "-",
      IF "filename" \in DOMAIN file_data THEN file_data["filename"] ELSE <<"file", 0>>>>

\* POST /files/upload
UploadFile(file_data, s3Ok) ==
    LET configured == S3_BUCKET # ""
        file_key == FileKey(Uuid4(nextUuid), file_data)
        calls == IF configured THEN <<Call("put_object", s3Ok)>> ELSE <<>>
        outcome == IF ~configured THEN HTTPException(500)
                   ELSE IF s3Ok
                   THEN Return(("file_key" :> file_key) @@ ("bucket" :> <<S3_BUCKET, 0>>)
                               @@ ("timestamp" :> TS(now)), <<>>)
                   ELSE Exception
    IN  /\ configured => nextUuid < MaxUuid
        /\ nextUuid' = IF configured THEN Uuid4(nextUuid) ELSE nextUuid
        /\ objects' = IF configured /\ s3Ok
                      THEN {o \in objects : o.Key # file_key}
                           \cup {[Key |-> file_key, Body |-> file_data]}
                      ELSE objects
        /\ last' = Request("upload", None, file_data, calls, Except(outcome, TRUE, 500))
        /\ UNCHANGED <<store, bus, S3_BUCKET, now, issued, orphans>>

\* Time passes between two requests.
Tick ==
    /\ now < MaxTime
    /\ now' = now + 1
    /\ UNCHANGED <<store, bus, objects, S3_BUCKET, nextUuid, issued, orphans, last>>

(* --------------------------- specification --------------------------- *)

Init ==
    /\ store = {}
    /\ bus = EmptyBag
    /\ objects = {}
    /\ S3_BUCKET \in {"", "bucket"}
    /\ now = 1
    /\ nextUuid = 0
    /\ issued = {}
    /\ orphans = {}
    /\ last = Request("none", None, EmptyObj, <<>>, Return(EmptyObj, <<>>))

Next ==
    \/ Root
    \/ \E dbOk \in BOOLEAN : HealthCheck(dbOk)
    \/ \E order \in Bodies(nextUuid), dbOk, evOk \in BOOLEAN : CreateOrder(order, dbOk, evOk)
    \/ \E order_id \in Nameable(nextUuid), dbOk \in BOOLEAN : GetOrder(order_id, dbOk)
    \/ \E order_id \in Nameable(nextUuid), status_data \in StatusBodies, dbOk, evOk \in BOOLEAN :
          UpdateOrderStatus(order_id, status_data, dbOk, evOk)
    \/ \E dbOk \in BOOLEAN : ListOrders(dbOk)
    \/ \E file_data \in FileBodies, s3Ok \in BOOLEAN : UploadFile(file_data, s3Ok)
    \/ Tick

Spec == Init /\ [][Next]_vars

(* ------------------------------ claims ------------------------------- *)

Events == BagToSet(bus)

Partition(tbl, order_id) == {x \in tbl : x["pk"] = <<"ORDER", order_id[2]>>}

QueryAnswered(r) == r.op = "get" /\ r.calls = <<[call |-> "query", ok |-> TRUE]>>

\* A status-update body with no status field or with the empty string.
StatusAbsentOrEmpty(body) ==
    IF "status" \in DOMAIN body THEN body["status"] = <<"str", 0>> ELSE TRUE

\* C1 (as claimed): a GET /orders/i handled right after a successful
\* POST /orders that returned i, with the query answered, returns 200 with a
\* record that has every field of the POST body with the caller's value and
\* status 'created'.
C1_GetAfterCreate ==
    [][(/\ last.op = "create" /\ last.code = 200
        /\ QueryAnswered(last') /\ last'.id = last.resp["order_id"])
       => /\ last'.code = 200
          /\ \A a \in DOMAIN last.body :
                a \in DOMAIN last'.resp /\ last'.resp[a] = last.body[a]
          /\ last'.resp["status"] = Created]_vars

\* The order ids a table holds: in partition keys and in order_id attributes.
OrderIdsIn(tbl) ==
    {<<"id", x["pk"][2]>> : x \in tbl}
    \cup {x["order_id"] : x \in {y \in tbl : "order_id" \in DOMAIN y}}

C3_MissingStatus ==
    [][(last'.op = "update" /\ StatusAbsentOrEmpty(last'.body) /\ now' = now)
       => /\ last'.code = 400
          /\ last'.calls = <<>>
          /\ store' = store
          /\ bus' = bus]_vars

\* C3 witness: 400 for an empty status string sent for an order that exists.
C3_Witness ==
    /\ last.op = "update" /\ last.code = 400
    /\ "status" \in DOMAIN last.body
    /\ Partition(store, last.id) # {}

\* C4 (as claimed): with the query answered, GET /orders/{id} returns 404
\* for an id no successful POST /orders returned, and the first item of the
\* partition when the partition has one.
C4_NotFound ==
    QueryAnswered(last) =>
        /\ last.id \notin issued => last.code = 404
        /\ Partition(store, last.id) # {} =>
              /\ last.code = 200
              /\ last.resp \in Partition(store, last.id)

\* C4 (amended): with the query answered, GET /orders/{id} returns 404
\* exactly when no stored item has partition key ORDER#<id>, and otherwise
\* the item of that partition with the smallest sort key, also for an id no
\* successful POST /orders returned.
C4_NotFoundIffEmpty ==
    QueryAnswered(last) =>
        IF Partition(store, last.id) = {}
        THEN last.code = 404
        ELSE /\ last.code = 200
             /\ last.resp \in Partition(store, last.id)
             /\ \A y \in Partition(store, last.id) : last.resp["sk"][2] <= y["sk"][2]

\* C4 witness: a get answered with the first of two items of an id that no
\* POST /orders returned.
C4_Witness ==
    /\ QueryAnswered(last) /\ last.code = 200
    /\ last.id \notin issued
    /\ Cardinality(Partition(store, last.id)) = 2

C6_Upload ==
    [][(last'.op = "upload" /\ now' = now)
       => /\ S3_BUCKET = "" =>
                /\ last'.code = 500
                /\ last'.calls = <<>>
                /\ objects' = objects
          /\ last'.code = 200 =>
                /\ S3_BUCKET # ""
                /\ last'.resp["file_key"][1] = "uploads/"
                /\ \E o \in objects' : o.Key = last'.resp["file_key"]]_vars

\* C6 witness: an upload refused because no bucket is configured.
C6_Witness == last.op = "upload" /\ last.code = 500 /\ S3_BUCKET = "" /\ last.body # EmptyObj

UpdateSucceeded(r) == r.op = "update" /\ r.code = 200

UpdateItemOf(r) ==
    ("pk" :> <<"ORDER", r.id[2]>>) @@ ("sk" :> <<"METADATA", r.resp["timestamp"][2]>>)
    @@ ("status" :> r.resp["status"]) @@ ("updated_at" :> r.resp["timestamp"])

\* C7 (as claimed): a successful status update of an order created at an
\* earlier timestamp, or of an id never created, changes no stored item and
\* adds one item holding the key, the new status and updated_at.
C7_AlwaysNewItem ==
    [][(/\ UpdateSucceeded(last') /\ now' = now
        /\ \A x \in Partition(store, last'.id) :
              "created_at" \in DOMAIN x => x["created_at"] # <<"ts", now>>)
       => /\ store \subseteq store'
          /\ Cardinality(store') = Cardinality(store) + 1
          /\ UpdateItemOf(last') \in store' \ store]_vars

\* C7 (amended): a successful status update whose key (ORDER#<id>,
\* METADATA#<update timestamp>) names no stored item changes no stored item
\* and adds one item holding the key, the new status and updated_at; when
\* the key names a stored item, only that item changes, its status and
\* updated_at are set and the number of items stays.
C7_NewItemUnlessKeyStored ==
    [][(UpdateSucceeded(last') /\ now' = now)
       => LET key == <<(<<"ORDER", last'.id[2]>>), (<<"METADATA", now>>)>>
              old == {x \in store : Key(x) = key}
          IN  IF old = {}
              THEN /\ store \subseteq store'
                   /\ Cardinality(store') = Cardinality(store) + 1
                   /\ UpdateItemOf(last') \in store'
              ELSE /\ store \ old \subseteq store'
                   /\ Cardinality(store') = Cardinality(store)
                   /\ \E x \in store' :
                         /\ Key(x) = key
                         /\ x["status"] = last'.resp["status"]
                         /\ x["updated_at"] = last'.resp["timestamp"]]_vars

\* C7 witness: an order created at an earlier timestamp was updated; the
\* created item still has status 'created' and the update is a second item.
C7_Witness ==
    /\ UpdateSucceeded(last)
    /\ UpdateItemOf(last) \in store
    /\ \E x \in Partition(store, last.id) :
          /\ "created_at" \in DOMAIN x
          /\ x["created_at"][2] < now
          /\ x["status"] = Created
          /\ "updated_at" \notin DOMAIN x

PublishFailed(r) ==
    /\ r.op = "create"
    /\ r.calls = <<[call |-> "put_item", ok |-> TRUE], [call |-> "put_events", ok |-> FALSE]>>

\* C8: a POST /orders whose put_item succeeded and whose put_events failed
\* answers 500; its item is not removed, its id was returned to no caller,
\* no "Order Created" event carries its id, and a later successful
\* GET /orders lists an item under its key.
C8_NoRollback ==
    /\ PublishFailed(last) => last.code = 500
    /\ \A o \in orphans :
          /\ o.key \in Keys(store)
          /\ <<"id", o.id>> \notin issued
          /\ \A e \in Events :
                e.DetailType = "Order Created" => e.Detail["order_id"] # <<"id", o.id>>
          /\ (last.op = "list" /\ last.code = 200) =>
                \E i \in 1..Len(last.orders) : Key(last.orders[i]) = o.key

\* C8 witness: a list returned after a create lost its event.
C8_Witness == last.op = "list" /\ last.code = 200 /\ orphans # {}

\* C9: a request ends in 200, 400, 404, 500 or 503; a failed backend call
\* gives 500 (503 in the health check) and never 200; 400 is the answer to
\* an update without status and 404 the answer to a get of an empty
\* partition, and neither is turned into a 500.
C9_ErrorKinds ==
    /\ last.code \in {200, 400, 404, 500, 503}
    /\ (\E i \in 1..Len(last.calls) : ~last.calls[i].ok) =>
          last.code = IF last.op = "health" THEN 503 ELSE 500
    /\ last.code = 400 <=> (last.op = "update" /\ StatusAbsentOrEmpty(last.body))
    /\ last.code = 404 <=> (QueryAnswered(last) /\ Partition(store, last.id) = {})
    /\ last.code = 503 => last.op = "health"

\* C9 witness: a get of an id with no item answered 404.
C9_Witness == last.op = "get" /\ last.code = 404

\* C10 (as claimed): every event on the bus has a stored item in the
\* partition ORDER#<its order_id>; a handler publishes only after its store
\* write succeeded; a successful create or update made exactly one
\* put_events call, and its event carries the response's order_id, status
\* and timestamp.
C10_EventAfterWrite ==
    /\ \A e \in Events : Partition(store, e.Detail["order_id"]) # {}
    /\ \A i \in 1..Len(last.calls) :
          last.calls[i].call = "put_events" =>
              i = 2 /\ last.calls[1].ok /\ last.calls[1].call \in {"put_item", "update_item"}
    /\ (last.op \in {"create", "update"} /\ last.code = 200) =>
          /\ Len(last.calls) = 2
          /\ \E e \in Events : e.Detail = last.resp

====
